---- MODULE Spec2Model ----
(***************************************************************************)
(* A model of ghost-stack's code-intelligence core:                        *)
(*   brain/embeddings.py  EmbeddingModel and the hash-derived fallback     *)
(*   brain/index.py       CodeIndex over one ChromaDB collection           *)
(*   brain/ingestor.py    FileIngestor: scan, chunk, hash cache, index     *)
(*                                                                         *)
(* Texts are run-length encoded: a text is a sequence of runs [ch, n], n   *)
(* copies of the character ch, no two neighbouring runs sharing ch and no  *)
(* run empty, so two texts are equal exactly when the strings are.  Paths  *)
(* and document ids are plain sequences of characters.                     *)
(***************************************************************************)
EXTENDS Integers, Sequences, FiniteSets, TLC

VARIABLES
    instances,      \* EmbeddingModel objects: slot -> NoInst or the object's fields
    lruCache,       \* the lru_cache(maxsize=1) of _get_model: <<>> or <<[key, val]>>
    useFallback,    \* the module global _USE_FALLBACK
    built,          \* SentenceTransformer objects constructed so far
    ecall,          \* the last call on an EmbeddingModel and what it returned
    eprev,          \* the call before it
    store,          \* the ChromaDB collection: document id -> [vec, content, meta]
    embedder,       \* CodeIndex._embedder: NoInst (None) or the EmbeddingModel
    icall,          \* the last call on the CodeIndex and what it returned
    files,          \* the repository: path -> Missing or File(content)
    hash_cache,     \* FileIngestor._hash_cache: path -> hash or NoHash
    cache_file,     \* the saved hash cache (.ghoststack/file_hashes.json)
    pass,           \* the index_all call in progress, or NoPass
    gcall,          \* the last call on the FileIngestor, or edit of the repository
    rcall,          \* the last call of _calculate_risk_level and what it returned
    ccall,          \* the last call of _chunk_file and what it returned
    scall,          \* the last path met by scan_files and whether it was yielded
    stack,          \* the items of the saved stack state (.ghoststack/stack.json)
    branches,       \* the local branches of the Git repository
    current,        \* the branch that is checked out
    kcall           \* the last stack command and how it ended

embedVars == <<instances, lruCache, useFallback, built, ecall, eprev>>

indexVars == <<store, embedder, icall>>

ingestVars == <<files, hash_cache, cache_file, pass, gcall>>

stackVars == <<stack, branches, current, kcall>>

pureVars == <<rcall, ccall, scall, stackVars>>

vars == <<instances, lruCache, useFallback, built, ecall, eprev,
          store, embedder, icall,
          files, hash_cache, cache_file, pass, gcall, rcall, ccall, scall,
          stack, branches, current, kcall>>

-----------------------------------------------------------------------------
(* Bounds of the model. *)

MaxBuilds == 2      \* backend constructions followed
MaxBatch == 1       \* longest embed_batch argument

-----------------------------------------------------------------------------
(* Texts. *)

Run(c, k) == [ch |-> c, n |-> k]

EmptyText == <<>>

RECURSIVE TextLen(_)
TextLen(t) == IF t = <<>> THEN 0 ELSE Head(t).n + TextLen(Tail(t))

\* content[:n]
RECURSIVE TextPrefix(_, _)
TextPrefix(t, n) ==
    IF t = <<>> \/ n <= 0 THEN <<>>
    ELSE IF Head(t).n <= n THEN <<Head(t)>> \o TextPrefix(Tail(t), n - Head(t).n)
    ELSE <<Run(Head(t).ch, n)>>

\* content[n:]
RECURSIVE TextDrop(_, _)
TextDrop(t, n) ==
    IF t = <<>> \/ n <= 0 THEN t
    ELSE IF Head(t).n <= n THEN TextDrop(Tail(t), n - Head(t).n)
    ELSE <<Run(Head(t).ch, Head(t).n - n)>> \o Tail(t)

\* content[from:to], 0 <= from
TextSlice(t, from, to) == TextPrefix(TextDrop(t, from), to - from)

Range(seq) == {seq[k] : k \in 1..Len(seq)}

-----------------------------------------------------------------------------
(* hashlib.sha256 and struct, as far as the code reads them.  SHA-256 is   *)
(* a fixed deterministic function; the model folds the text into a 16-bit  *)
(* digest, and derives from (digest, i) the sign, exponent and mantissa    *)
(* fields of the IEEE-754 single that struct.unpack('f', h[:4]) decodes.   *)

DigestMod == 65521

CharCode(c) ==
    CASE c = "a" -> 1 [] c = "b" -> 2 [] c = "c" -> 3 [] c = "d" -> 4
      [] c = "NL" -> 10 [] OTHER -> 11

RECURSIVE Sha256From(_, _)
Sha256From(h, t) ==
    IF t = <<>> THEN h
    ELSE Sha256From((h * 31 + CharCode(Head(t).ch) * 1009 + Head(t).n) % DigestMod, Tail(t))

Sha256(t) == Sha256From(7, t)

\* hashlib.sha256(digest + struct.pack('i', i)).digest()[:4], unpacked as a float
UnpackF(digest, i) ==
    LET x == (digest * 37 + i * i * 11 + i * 101 + 5) % 65536
    IN  [sign |-> x % 2,
         exp  |-> x \div 256,
         man  |-> (x * 97 + 13) % 8388608]

\* (val % 2) - 1 in Python floats: a NaN or an infinity (exponent 255) gives
\* NaN; a finite val of magnitude 2^24 or more is an even integer and gives
\* -1.0; any other val gives a float in [-1, 1] that the model names by val.
NaNExp == 255
EvenExp == 151

FoldComponent(f) ==
    IF f.exp = NaNExp THEN [nan |-> TRUE, minus1 |-> FALSE, of |-> <<0, 0, 0>>]
    ELSE IF f.exp >= EvenExp THEN [nan |-> FALSE, minus1 |-> TRUE, of |-> <<0, 0, 0>>]
    ELSE [nan |-> FALSE, minus1 |-> FALSE, of |-> <<f.sign, f.exp, f.man>>]

\* The list _simple_hash_embedding returns is kept by what generates it: the
\* digest of the text and the dimension.  HashElement is its i-th element.
simple_hash_embedding(text, dimension) ==
    [kind |-> "hash", seed |-> Sha256(text), dim |-> dimension]

HashElement(v, i) == FoldComponent(UnpackF(v.seed, i))

\* A vector the real backend returns (model.encode(text).tolist()).
BackendVector(backend, text) ==
    [kind |-> "model", seed |-> Sha256(text), dim |-> backend.dim]

Element(v, i) ==
    IF v.kind = "hash" THEN HashElement(v, i)
    ELSE [nan |-> FALSE, minus1 |-> FALSE, of |-> <<2, v.seed, i>>]

\* Python's == on two floats made by separate calls: never true of a NaN.
PyFloatEq(x, y) == ~x.nan /\ ~y.nan /\ x = y

\* Python's == on two lists of floats made by separate calls.
PyListEq(v, w) ==
    /\ v.dim = w.dim
    /\ \A i \in 0..(v.dim - 1) : PyFloatEq(Element(v, i), Element(w, i))

HasNaN(v) == \E i \in 0..(v.dim - 1) : Element(v, i).nan

-----------------------------------------------------------------------------
(* brain/embeddings.py *)

DEFAULT_MODEL == "all-MiniLM-L6-v2"
ModelNames == {DEFAULT_MODEL, "other-model"}
DefaultDimension == 384

InstIds == {1, 2}
NoInst == [live |-> FALSE]
NoBackend == [id |-> 0, name |-> "", dim |-> 0]

EmbedTexts == {<<Run("a", 1)>>, <<Run("b", 2)>>}

\* EmbeddingModel.__init__
NewInstance(name, use_fallback) ==
    [live |-> TRUE, model_name |-> name, model |-> NoBackend,
     fallback |-> use_fallback, dimension |-> DefaultDimension]

\* What one evaluation of _get_model(model_name) can do: a cache hit returns
\* the cached object; a miss runs the body, which constructs a backend and
\* caches it (evicting the other entry: maxsize=1), or fails, sets
\* _USE_FALLBACK and raises RuntimeError (lru_cache keeps no exception).
GetModelOutcomes(name, cache, flag, nbuilt) ==
    IF cache # <<>> /\ cache[1].key = name
    THEN {[raised |-> FALSE, val |-> cache[1].val, cache |-> cache,
           flag |-> flag, built |-> nbuilt]}
    ELSE {[raised |-> TRUE, val |-> NoBackend, cache |-> cache,
           flag |-> TRUE, built |-> nbuilt]}
         \cup
         (IF nbuilt < MaxBuilds
          THEN LET b == [id |-> nbuilt + 1, name |-> name, dim |-> DefaultDimension]
               IN  {[raised |-> FALSE, val |-> b,
                     cache |-> <<[key |-> name, val |-> b]>>,
                     flag |-> flag, built |-> nbuilt + 1]}
          ELSE {})

\* A model property that tries the backend again in fallback mode and leaves
\* fallback mode when it loads.
ModelOutcomesRetry(inst, cache, flag, nbuilt) ==
    IF inst.model = NoBackend
    THEN {[raised |-> g.raised,
           inst |-> IF g.raised THEN [inst EXCEPT !.fallback = TRUE]
                    ELSE [inst EXCEPT !.model = g.val, !.fallback = FALSE],
           cache |-> g.cache, flag |-> g.flag, built |-> g.built]
          : g \in GetModelOutcomes(inst.model_name, cache, flag, nbuilt)}
    ELSE {[raised |-> FALSE, inst |-> inst, cache |-> cache, flag |-> flag,
           built |-> nbuilt]}

\* What one read of the property EmbeddingModel.model can do to the object
\* and the globals: [raised, inst, cache, flag, built].
ModelOutcomes(inst, cache, flag, nbuilt) ==
    IF inst.fallback
    THEN {[raised |-> TRUE, inst |-> inst, cache |-> cache, flag |-> flag,
           built |-> nbuilt]}
    ELSE IF inst.model = NoBackend
    THEN {[raised |-> g.raised,
           inst |-> IF g.raised THEN [inst EXCEPT !.fallback = TRUE]
                    ELSE [inst EXCEPT !.model = g.val],
           cache |-> g.cache, flag |-> g.flag, built |-> g.built]
          : g \in GetModelOutcomes(inst.model_name, cache, flag, nbuilt)}
    ELSE {[raised |-> FALSE, inst |-> inst, cache |-> cache, flag |-> flag,
           built |-> nbuilt]}

\* What one embed(text) can do: [value, failed, inst, cache, flag, built];
\* failed says the backend failed (construction or encode) during the call.
EmbedFallbackOnFailure(inst) == [inst EXCEPT !.fallback = TRUE]

EmbedOutcomes(inst, text, cache, flag, nbuilt) ==
    IF inst.fallback
    THEN {[value |-> simple_hash_embedding(text, inst.dimension), failed |-> FALSE,
           inst |-> inst, cache |-> cache, flag |-> flag, built |-> nbuilt]}
    ELSE UNION {
        IF m.raised
        THEN {[value |-> simple_hash_embedding(text, inst.dimension), failed |-> TRUE,
               inst |-> EmbedFallbackOnFailure(m.inst), cache |-> m.cache,
               flag |-> m.flag, built |-> m.built]}
        ELSE {\* encode succeeds
              [value |-> BackendVector(m.inst.model, text), failed |-> FALSE,
               inst |-> m.inst, cache |-> m.cache, flag |-> m.flag,
               built |-> m.built],
              \* encode raises
              [value |-> simple_hash_embedding(text, inst.dimension), failed |-> TRUE,
               inst |-> EmbedFallbackOnFailure(m.inst), cache |-> m.cache,
               flag |-> m.flag, built |-> m.built]}
        : m \in ModelOutcomes(inst, cache, flag, nbuilt)}

NoCall == [op |-> "none", inst |-> 0, args |-> <<>>, raised |-> FALSE,
           failed |-> FALSE, value |-> <<>>, num |-> 0]

\* What is kept of the call before the last: an embed call in which the
\* backend failed whole, of any other call its object and whether the
\* backend failed in it.
Remembered(c) ==
    IF c.op = "embed" /\ c.failed THEN c
    ELSE [NoCall EXCEPT !.inst = c.inst, !.failed = c.failed]

Construct(i) ==
    /\ \E name \in ModelNames, fb \in BOOLEAN :
          instances' = [instances EXCEPT ![i] = NewInstance(name, fb)]
    /\ ecall' = [NoCall EXCEPT !.op = "init", !.inst = i]
    /\ eprev' = Remembered(ecall)
    /\ UNCHANGED <<indexVars, ingestVars, pureVars>>
    /\ UNCHANGED <<lruCache, useFallback, built>>

Embed(i) ==
    /\ instances[i].live
    /\ \E text \in EmbedTexts :
       \E o \in EmbedOutcomes(instances[i], text, lruCache, useFallback, built) :
          /\ instances' = [instances EXCEPT ![i] = o.inst]
          /\ lruCache' = o.cache
          /\ useFallback' = o.flag
          /\ built' = o.built
          /\ ecall' = [NoCall EXCEPT !.op = "embed", !.inst = i, !.args = <<text>>,
                                     !.failed = o.failed, !.value = <<o.value>>]
    /\ eprev' = Remembered(ecall)
    /\ UNCHANGED <<indexVars, ingestVars, pureVars>>

\* embed_batch(texts): [value, failed, inst, cache, flag, built]
HashEach(texts, dimension) ==
    [k \in 1..Len(texts) |-> simple_hash_embedding(texts[k], dimension)]

EmbedBatchOutcomes(inst, texts, cache, flag, nbuilt) ==
    IF texts = <<>>
    THEN {[value |-> <<>>, failed |-> FALSE, inst |-> inst, cache |-> cache,
           flag |-> flag, built |-> nbuilt]}
    ELSE IF inst.fallback
    THEN {[value |-> HashEach(texts, inst.dimension), failed |-> FALSE,
           inst |-> inst, cache |-> cache, flag |-> flag, built |-> nbuilt]}
    ELSE UNION {
        IF m.raised
        THEN {[value |-> HashEach(texts, inst.dimension), failed |-> TRUE,
               inst |-> [m.inst EXCEPT !.fallback = TRUE], cache |-> m.cache,
               flag |-> m.flag, built |-> m.built]}
        ELSE {[value |-> [k \in 1..Len(texts) |-> BackendVector(m.inst.model, texts[k])],
               failed |-> FALSE, inst |-> m.inst, cache |-> m.cache,
               flag |-> m.flag, built |-> m.built],
              [value |-> HashEach(texts, inst.dimension), failed |-> TRUE,
               inst |-> [m.inst EXCEPT !.fallback = TRUE], cache |-> m.cache,
               flag |-> m.flag, built |-> m.built]}
        : m \in ModelOutcomes(inst, cache, flag, nbuilt)}

Batches == UNION {[1..k -> EmbedTexts] : k \in 0..MaxBatch}

EmbedBatch(i) ==
    /\ instances[i].live
    /\ \E texts \in Batches :
       \E o \in EmbedBatchOutcomes(instances[i], texts, lruCache, useFallback, built) :
          /\ instances' = [instances EXCEPT ![i] = o.inst]
          /\ lruCache' = o.cache
          /\ useFallback' = o.flag
          /\ built' = o.built
          /\ ecall' = [NoCall EXCEPT !.op = "embed_batch", !.inst = i, !.args = texts,
                                     !.failed = o.failed, !.value = o.value]
    /\ eprev' = Remembered(ecall)
    /\ UNCHANGED <<indexVars, ingestVars, pureVars>>

\* The property dimension: the object's own _dimension in fallback mode or
\* when the backend cannot be had or asked; the backend's answer otherwise.
\* A failure of get_sentence_embedding_dimension() sets no flag.
Dimension(i) ==
    /\ instances[i].live
    /\ \/ /\ instances[i].fallback
          /\ ecall' = [NoCall EXCEPT !.op = "dimension", !.inst = i,
                                     !.num = instances[i].dimension]
          /\ UNCHANGED <<instances, lruCache, useFallback, built>>
       \/ /\ ~instances[i].fallback
          /\ \E m \in ModelOutcomes(instances[i], lruCache, useFallback, built) :
                /\ instances' = [instances EXCEPT ![i] = m.inst]
                /\ lruCache' = m.cache
                /\ useFallback' = m.flag
                /\ built' = m.built
                /\ \E asked \in BOOLEAN :
                      ecall' = [NoCall EXCEPT !.op = "dimension", !.inst = i,
                                  !.failed = m.raised \/ ~asked,
                                  !.num = IF m.raised \/ ~asked
                                          THEN instances[i].dimension
                                          ELSE m.inst.model.dim]
    /\ eprev' = Remembered(ecall)
    /\ UNCHANGED <<indexVars, ingestVars, pureVars>>

\* A read of the property model by a caller: it raises in fallback mode and
\* when the backend cannot be constructed.
ModelAccess(i) ==
    /\ instances[i].live
    /\ \E m \in ModelOutcomes(instances[i], lruCache, useFallback, built) :
          /\ instances' = [instances EXCEPT ![i] = m.inst]
          /\ lruCache' = m.cache
          /\ useFallback' = m.flag
          /\ built' = m.built
          /\ ecall' = [NoCall EXCEPT !.op = "model", !.inst = i, !.raised = m.raised]
    /\ eprev' = Remembered(ecall)
    /\ UNCHANGED <<indexVars, ingestVars, pureVars>>

EmbedInit ==
    /\ instances = [i \in InstIds |-> NoInst]
    /\ lruCache = <<>>
    /\ useFallback = FALSE
    /\ built = 0
    /\ ecall = NoCall
    /\ eprev = NoCall

EmbedNext ==
    \E i \in InstIds :
        \/ Construct(i)
        \/ Embed(i)
        \/ EmbedBatch(i)
        \/ Dimension(i)
        \/ ModelAccess(i)

-----------------------------------------------------------------------------
(* brain/index.py: CodeIndex over one ChromaDB collection.  The collection  *)
(* is the library's: get and delete by id, upsert that replaces the whole   *)
(* document, query that returns the n nearest documents among those the     *)
(* where-filter admits, nearest first.                                      *)

MaxK == 1           \* largest n_results asked of get_related_files and search
MaxChanged == 2     \* longest changed_files list
MaxFilter == 1      \* longest file_filter given to search directly

QueryLimit == 2000

\* File paths and chunk ids, as sequences of characters.
PathAB == <<"a", "/", "b", ".", "p", "y">>
PathA_B == <<"a", "_", "b", ".", "p", "y">>
PathC == <<"c", ".", "j", "s">>
IndexPaths == {PathAB, PathA_B, PathC}
ChunkPaths == {PathAB, PathA_B}     \* the files add_chunk is called for

ChunkF == <<"f">>
ChunkFull == <<"f", "u", "l", "l">>
IndexChunkIds == {ChunkF}
NoChunkId == <<>>       \* no chunk_id key in the metadata (.get gives None)

TextA == <<Run("a", 1)>>
TextB == <<Run("b", 2)>>
IndexTexts == {TextA, TextB}

IndexExtras == {[language |-> "python"]}     \* the metadata argument

\* str.replace(old, new) on single characters
Replace(str, old, new) ==
    [k \in 1..Len(str) |-> IF str[k] = old THEN new ELSE str[k]]

\* file_path.replace("/", "_").replace(".", "_")
FileDocId(file_path) == Replace(Replace(file_path, "/", "_"), ".", "_")

\* f"{file_path}::{chunk_id}".replace("/", "_").replace(".", "_")
ChunkDocId(file_path, chunk_id) ==
    Replace(Replace(file_path \o <<":", ":">> \o chunk_id, "/", "_"), ".", "_")

\* hashlib.sha256(content.encode()).hexdigest()[:16]
hash_content(content) == Sha256(content)

\* The property embedder: created on first use, in fallback mode.
EmbedderOfReal(e) == IF e.live THEN e ELSE NewInstance(DEFAULT_MODEL, FALSE)

EmbedderOf(e) == IF e.live THEN e ELSE NewInstance(DEFAULT_MODEL, TRUE)

\* self.embedder.embed(text): the outcomes of EmbeddingModel.embed on it
EmbedderOutcomes(e, text) ==
    EmbedOutcomes(EmbedderOf(e), text, lruCache, useFallback, built)

\* collection.upsert: insert, or replace the whole document of that id
Upsert(st, id, doc) ==
    [d \in DOMAIN st \cup {id} |-> IF d = id THEN doc ELSE st[d]]

\* collection.delete(ids=[id]): no error when the id is not there
Delete(st, id) == [d \in DOMAIN st \ {id} |-> st[d]]

\* The collection's distance between two stored or query vectors: a fixed
\* symmetric function of the two, 0 for equal vectors.
Distance(v, w) ==
    IF v = w THEN 0
    ELSE 1 + ((IF v.seed > w.seed THEN v.seed - w.seed ELSE w.seed - v.seed) % 3)

\* where={"file_path": {"$nin": file_filter}}, or no where at all for a
\* missing or empty file_filter
Admitted(st, file_filter) ==
    {d \in DOMAIN st :
        file_filter = <<>> \/ st[d].meta.file_path \notin Range(file_filter)}

\* The orders in which the collection can return the n nearest of ids:
\* nearest first, ties in any order.
RECURSIVE NearestOrders(_, _, _, _)
NearestOrders(st, qvec, ids, n) ==
    IF n <= 0 \/ ids = {} THEN {<<>>}
    ELSE LET nearest == {d \in ids : \A o \in ids :
                            Distance(qvec, st[d].vec) <= Distance(qvec, st[o].vec)}
         IN  UNION {{<<d>> \o rest : rest \in NearestOrders(st, qvec, ids \ {d}, n - 1)}
                    : d \in nearest}

\* A query that takes the n nearest of all documents and drops the excluded
\* ones afterwards
CollectionQueryPostFilter(st, qvec, n, file_filter) ==
    {SelectSeq(ids, LAMBDA d : d \in Admitted(st, file_filter))
     : ids \in NearestOrders(st, qvec, DOMAIN st, n)}

\* collection.query(query_embeddings=[qvec], n_results=n, where=...)
CollectionQuery(st, qvec, n, file_filter) ==
    NearestOrders(st, qvec, Admitted(st, file_filter), n)

\* One formatted search result
Formatted(st, qvec, d) ==
    [id |-> d, file_path |-> st[d].meta.file_path, chunk_id |-> st[d].meta.chunk_id,
     content |-> st[d].content, distance |-> Distance(qvec, st[d].vec),
     metadata |-> st[d].meta]

\* search(query, n_results, file_filter): the lists it can return
SearchOutcomes(st, e, query, n, file_filter) ==
    UNION {{[k \in 1..Len(ids) |-> Formatted(st, o.value, ids[k])]
            : ids \in CollectionQuery(st, o.value, n, file_filter)}
           : o \in EmbedderOutcomes(e, query)}

\* Lines 224-228: one match merged into the dict related, kept here as the
\* sequence of its values in insertion order (a replaced value keeps its place).
PathIndex(related, path) ==
    {k \in 1..Len(related) : related[k].file_path = path}

\* A merge in which the last match of a path wins
MergeMatchLastWins(related, match, changed_files) ==
    IF match.file_path \in Range(changed_files) THEN related
    ELSE IF PathIndex(related, match.file_path) = {} THEN Append(related, match)
    ELSE LET k == CHOOSE j \in PathIndex(related, match.file_path) : TRUE
         IN  [related EXCEPT ![k] = match]

MergeMatch(related, match, changed_files) ==
    IF match.file_path \in Range(changed_files) THEN related
    ELSE IF PathIndex(related, match.file_path) = {} THEN Append(related, match)
    ELSE LET k == CHOOSE j \in PathIndex(related, match.file_path) : TRUE
         IN  IF match.distance < related[k].distance
             THEN [related EXCEPT ![k] = match]
             ELSE related

RECURSIVE MergeAll(_, _, _)
MergeAll(related, matches, changed_files) ==
    IF matches = <<>> THEN related
    ELSE MergeAll(MergeMatch(related, Head(matches), changed_files),
                  Tail(matches), changed_files)

\* sorted(values, key=distance): stable, ascending
RECURSIVE InsertByDistance(_, _)
InsertByDistance(sorted, m) ==
    IF sorted = <<>> THEN <<m>>
    ELSE IF Head(sorted).distance <= m.distance
         THEN <<Head(sorted)>> \o InsertByDistance(Tail(sorted), m)
         ELSE <<m>> \o sorted

RECURSIVE SortByDistance(_)
SortByDistance(list) ==
    IF list = <<>> THEN <<>>
    ELSE InsertByDistance(SortByDistance(SubSeq(list, 1, Len(list) - 1)),
                          list[Len(list)])

\* get_related_files from the i-th changed file on: the results it can
\* return, each with the set of all matches its searches returned.  excluded
\* is the list given to search as file_filter and tested at line 226.
RECURSIVE RelatedFrom(_, _, _, _, _, _, _, _)
RelatedFrom(st, e, changed_files, excluded, n_results, i, related, seen) ==
    IF i > Len(changed_files)
    THEN {[ret |-> SortByDistance(related), matches |-> seen]}
    ELSE LET doc_id == FileDocId(changed_files[i])
         IN  IF doc_id \notin DOMAIN st \/ st[doc_id].content = EmptyText
             THEN RelatedFrom(st, e, changed_files, excluded, n_results, i + 1,
                              related, seen)
             ELSE UNION {
                    RelatedFrom(st, e, changed_files, excluded, n_results, i + 1,
                                MergeAll(related, ms, excluded),
                                seen \cup Range(ms))
                    : ms \in SearchOutcomes(st, e,
                                TextPrefix(st[doc_id].content, QueryLimit),
                                n_results + Len(changed_files), excluded)}

\* get_related_files with nothing excluded, in the search or in the merge
GetRelatedNoExclusion(st, e, changed_files, n_results) ==
    RelatedFrom(st, e, changed_files, <<>>, n_results, 1, <<>>, {})

GetRelatedOutcomes(st, e, changed_files, n_results) ==
    RelatedFrom(st, e, changed_files, changed_files, n_results, 1, <<>>, {})

NoICall == [op |-> "none", file_path |-> <<>>, chunk_id |-> <<>>,
            content |-> EmptyText, extra |-> [language |-> ""], changed |-> <<>>, n |-> 0,
            ret |-> <<>>, matches |-> {}, embedded |-> FALSE, removed |-> FALSE]

\* metadata of a stored document: file_path, chunk_id, content_hash and the
\* caller's metadata
Meta(file_path, chunk_id, content, extra) ==
    [file_path |-> file_path, chunk_id |-> chunk_id,
     content_hash |-> hash_content(content), extra |-> extra]

\* A dedup test that looks at the id alone
SameIdStored(st, doc_id, content) == doc_id \in DOMAIN st

\* The dedup test of add_file and add_chunk: a document of that id whose
\* stored content_hash equals the hash of the incoming content.
SameContentStored(st, doc_id, content) ==
    /\ doc_id \in DOMAIN st
    /\ st[doc_id].meta.content_hash = hash_content(content)

\* add_chunk(file_path, chunk_id, content, metadata) on store st with
\* embedder e: [store, embedder, embedded]
AddChunkOutcomes(st, e, file_path, chunk_id, content, extra) ==
    LET doc_id == ChunkDocId(file_path, chunk_id)
    IN  IF SameContentStored(st, doc_id, content)
        THEN {[store |-> st, embedder |-> e, embedded |-> FALSE]}
        ELSE {[store |-> Upsert(st, doc_id,
                           [vec |-> o.value, content |-> content,
                            meta |-> Meta(file_path, chunk_id, content, extra)]),
               embedder |-> o.inst, embedded |-> TRUE]
              : o \in EmbedderOutcomes(e, content)}

AddFileOutcomes(st, e, file_path, content, extra) ==
    LET doc_id == FileDocId(file_path)
    IN  IF SameContentStored(st, doc_id, content)
        THEN {[store |-> st, embedder |-> e, embedded |-> FALSE]}
        ELSE {[store |-> Upsert(st, doc_id,
                           [vec |-> o.value, content |-> content,
                            meta |-> Meta(file_path, NoChunkId, content, extra)]),
               embedder |-> o.inst, embedded |-> TRUE]
              : o \in EmbedderOutcomes(e, content)}

AddChunk ==
    \E file_path \in ChunkPaths, chunk_id \in IndexChunkIds,
       content \in IndexTexts, extra \in IndexExtras :
    \E o \in AddChunkOutcomes(store, embedder, file_path, chunk_id, content, extra) :
        /\ store' = o.store
        /\ embedder' = o.embedder
        /\ icall' = [NoICall EXCEPT !.op = "add_chunk", !.file_path = file_path,
                        !.chunk_id = chunk_id, !.content = content,
                        !.extra = extra, !.embedded = o.embedded]
        /\ UNCHANGED <<embedVars, ingestVars, pureVars>>

AddFile ==
    \E file_path \in IndexPaths, content \in IndexTexts, extra \in IndexExtras :
    \E o \in AddFileOutcomes(store, embedder, file_path, content, extra) :
        /\ store' = o.store
        /\ embedder' = o.embedder
        /\ icall' = [NoICall EXCEPT !.op = "add_file", !.file_path = file_path,
                        !.content = content, !.extra = extra,
                        !.embedded = o.embedded]
        /\ UNCHANGED <<embedVars, ingestVars, pureVars>>

\* Lists of distinct paths, at most n long
PathLists(n) ==
    {cl \in UNION {[1..k -> IndexPaths] : k \in 0..n} :
        \A x, y \in 1..Len(cl) : x # y => cl[x] # cl[y]}

ChangedLists == PathLists(MaxChanged)

Search ==
    \E query \in IndexTexts, n \in 1..(MaxK + 1), file_filter \in PathLists(MaxFilter) :
    \E r \in SearchOutcomes(store, embedder, query, n, file_filter) :
        /\ icall' = [NoICall EXCEPT !.op = "search", !.content = query, !.n = n,
                        !.changed = file_filter, !.ret = r]
        /\ embedder' = EmbedderOf(embedder)
        /\ UNCHANGED <<store, embedVars, ingestVars, pureVars>>

GetRelatedFiles ==
    \E changed_files \in ChangedLists, n_results \in 0..MaxK :
    \E r \in GetRelatedOutcomes(store, embedder, changed_files, n_results) :
        /\ icall' = [NoICall EXCEPT !.op = "get_related_files",
                        !.changed = changed_files, !.n = n_results,
                        !.ret = r.ret, !.matches = r.matches]
        /\ embedder' = IF r.matches = {} /\ \A k \in 1..Len(changed_files) :
                              \/ FileDocId(changed_files[k]) \notin DOMAIN store
                              \/ store[FileDocId(changed_files[k])].content = EmptyText
                       THEN embedder ELSE EmbedderOf(embedder)
        /\ UNCHANGED <<store, embedVars, ingestVars, pureVars>>

\* remove_file(file_path): deletes the document under the whole-file id;
\* True unless the collection raises
RemoveFile ==
    \E file_path \in IndexPaths :
        /\ store' = Delete(store, FileDocId(file_path))
        /\ icall' = [NoICall EXCEPT !.op = "remove_file", !.file_path = file_path,
                        !.removed = TRUE]
        /\ UNCHANGED <<embedder, embedVars, ingestVars, pureVars>>

\* clear(): the collection is deleted and created again
Clear ==
    /\ store' = <<>>
    /\ icall' = [NoICall EXCEPT !.op = "clear"]
    /\ UNCHANGED <<embedder, embedVars, ingestVars, pureVars>>

IndexInit ==
    /\ store = <<>>
    /\ embedder = NoInst
    /\ icall = NoICall

IndexNext ==
    \/ AddChunk
    \/ AddFile
    \/ Search
    \/ GetRelatedFiles
    \/ RemoveFile
    \/ Clear

-----------------------------------------------------------------------------
(* brain/ingestor.py: chunking. *)

MAX_FILE_SIZE == 500000
CHUNK_SIZE == 2000
CHUNK_OVERLAP == 200

NL == Run("NL", 1)      \* the character "\n"

\* x + y on texts
TextCat(x, y) ==
    IF x = <<>> THEN y
    ELSE IF y = <<>> THEN x
    ELSE IF x[Len(x)].ch = y[1].ch
         THEN SubSeq(x, 1, Len(x) - 1)
              \o <<Run(y[1].ch, x[Len(x)].n + y[1].n)>> \o Tail(y)
         ELSE x \o y

\* content.split("\n"): done are the lines closed so far, cur the open one
RECURSIVE SplitFrom(_, _, _)
SplitFrom(t, cur, done) ==
    IF t = <<>> THEN Append(done, cur)
    ELSE IF Head(t).ch = "NL"
         THEN SplitFrom(Tail(t), <<>>,
                        Append(done, cur) \o [k \in 1..(Head(t).n - 1) |-> <<>>])
         ELSE SplitFrom(Tail(t), Append(cur, Head(t)), done)

SplitLines(content) == SplitFrom(content, <<>>, <<>>)

\* "\n".join(lines)
RECURSIVE JoinLines(_)
JoinLines(lines) ==
    IF lines = <<>> THEN <<>>
    ELSE IF Len(lines) = 1 THEN lines[1]
    ELSE TextCat(TextCat(lines[1], <<NL>>), JoinLines(Tail(lines)))

\* lines[from:to] of a Python list
ListSlice(list, from, to) ==
    SubSeq(list, from + 1, IF to > Len(list) THEN Len(list) ELSE to)

\* str(n) for n >= 0
DigitChars == <<"0", "1", "2", "3", "4", "5", "6", "7", "8", "9">>

RECURSIVE Str(_)
Str(n) == IF n < 10 THEN <<DigitChars[n + 1]>>
          ELSE Str(n \div 10) \o <<DigitChars[(n % 10) + 1]>>

IdFull == <<"f", "u", "l", "l">>
IdModule == <<"m", "o", "d", "u", "l", "e">>
IdChunk(chunk_num) == <<"c", "h", "u", "n", "k", "_">> \o Str(chunk_num)

NoNum == -1     \* a metadata key that is not there

ChunkRec(id, content, type, name, num, from, to) ==
    [id |-> id, content |-> content,
     metadata |-> [type |-> type, name |-> name, num |-> num,
                   from |-> from, to |-> to]]

\* Windows that do not overlap
RECURSIVE WindowsNoOverlap(_, _, _)
WindowsNoOverlap(content, start, chunk_num) ==
    IF start < TextLen(content)
    THEN LET end == start + CHUNK_SIZE
         IN  <<ChunkRec(IdChunk(chunk_num), TextSlice(content, start, end), "chunk",
                        <<>>, chunk_num, start,
                        IF end < TextLen(content) THEN end ELSE TextLen(content))>>
             \o WindowsNoOverlap(content, start + CHUNK_SIZE, chunk_num + 1)
    ELSE <<>>

\* The windows of _chunk_by_lines, from offset start on (lines 215-231)
RECURSIVE Windows(_, _, _)
Windows(content, start, chunk_num) ==
    IF start < TextLen(content)
    THEN LET end == start + CHUNK_SIZE
         IN  <<ChunkRec(IdChunk(chunk_num), TextSlice(content, start, end), "chunk",
                        <<>>, chunk_num, start,
                        IF end < TextLen(content) THEN end ELSE TextLen(content))>>
             \o Windows(content, start + CHUNK_SIZE - CHUNK_OVERLAP, chunk_num + 1)
    ELSE <<>>

\* A chunker that never windows
chunk_whole(content) ==
    <<ChunkRec(IdFull, content, "full_file", <<>>, NoNum, NoNum, NoNum)>>

chunk_by_lines(content) ==
    IF TextLen(content) <= CHUNK_SIZE
    THEN <<ChunkRec(IdFull, content, "full_file", <<>>, NoNum, NoNum, NoNum)>>
    ELSE Windows(content, 0, 0)

\* The Python sources of the model and what ast.parse makes of each: a
\* SyntaxError, or the definitions in the order of ast.walk.
NameF == <<"f">>
NameG == <<"g">>

PyOneDef == <<Run("a", 4), NL, Run("b", 3)>>    \* def f over lines 1-2
PyTwoDefs == <<Run("a", 4), NL, Run("c", 3)>>   \* def f on line 1, def g on line 2
PyNoDefs == <<Run("c", 5)>>                     \* statements only
PyBroken == <<Run("b", 1), NL, Run("a", 2)>>    \* does not parse
PyLongNoDefs == <<Run("c", 2100)>>              \* statements only, 2100 characters
PySameNames == <<Run("a", 4), NL, Run("a", 3)>> \* def f on line 1, def f again on line 2
PyLongBroken == <<Run("b", 2100)>>              \* does not parse, 2100 characters

Def(name, kind, lineno, end_lineno) ==
    [name |-> name, kind |-> kind, lineno |-> lineno, end_lineno |-> end_lineno]

AstParse(content) ==
    CASE content = PyOneDef -> [ok |-> TRUE, defs |-> <<Def(NameF, "function", 1, 2)>>]
      [] content = PyTwoDefs -> [ok |-> TRUE, defs |-> <<Def(NameF, "function", 1, 1),
                                                        Def(NameG, "function", 2, 2)>>]
      [] content = PyNoDefs -> [ok |-> TRUE, defs |-> <<>>]
      [] content = PyLongNoDefs -> [ok |-> TRUE, defs |-> <<>>]
      [] content = PySameNames -> [ok |-> TRUE, defs |-> <<Def(NameF, "function", 1, 1),
                                                          Def(NameF, "function", 2, 2)>>]
      [] OTHER -> [ok |-> FALSE, defs |-> <<>>]

chunk_python(content) ==
    LET tree == AstParse(content)
        lines == SplitLines(content)
        chunks == [k \in 1..Len(tree.defs) |->
                     LET node == tree.defs[k]
                         start_line == node.lineno - 1
                         end_line == node.end_lineno
                     IN  ChunkRec(node.name,
                                  JoinLines(ListSlice(lines, start_line, end_line)),
                                  IF node.kind = "class" THEN "class" ELSE "function",
                                  node.name, NoNum, start_line + 1, end_line)]
    IN  IF ~tree.ok THEN chunk_by_lines(content)
        ELSE IF chunks = <<>>
        THEN <<ChunkRec(IdModule, TextPrefix(content, CHUNK_SIZE), "module",
                        <<>>, NoNum, NoNum, NoNum)>>
        ELSE chunks

\* path.suffix: from the last "." of the path on (the paths of the model are
\* in lower case)
RECURSIVE Suffix(_)
Suffix(path) ==
    IF path = <<>> THEN <<>>
    ELSE IF \E k \in 2..Len(path) : path[k] = "." THEN Suffix(Tail(path))
    ELSE IF Head(path) = "." THEN path ELSE <<>>

\* SUPPORTED_EXTENSIONS.get(ext, "unknown"), for the extensions of the model
Language(ext) ==
    CASE ext = <<".", "p", "y">> -> "python"
      [] ext = <<".", "j", "s">> -> "javascript"
      [] ext = <<".", "g", "o">> -> "go"
      [] OTHER -> "unknown"

chunk_file(path, content) ==
    IF Language(Suffix(path)) = "python" THEN chunk_python(content)
    ELSE chunk_by_lines(content)

-----------------------------------------------------------------------------
(* brain/ingestor.py: the FileIngestor over a repository.  Paths are kept
   relative to the repository root; index_file is taken as one step with
   respect to edits of the file system, an index_all pass is a sequence of
   steps that edits may interleave with. *)

IngestPaths == {PathAB, PathC}
ScanOrder == <<PathAB, PathC>>      \* the order in which rglob meets the paths

JsLarge == <<Run("d", 2100)>>

\* The contents a file of the model may be given
Versions(path) == IF path = PathAB THEN {PyOneDef, PyTwoDefs} ELSE {JsLarge}

Missing == [exists |-> FALSE, content |-> EmptyText]
File(content) == [exists |-> TRUE, content |-> content]

NoHash == -1        \* no entry for the path in the hash cache
EmptyCache == [p \in IngestPaths |-> NoHash]

\* What the hash-cache file can hold besides a saved cache: nothing (there
\* is no file), text that is not JSON, or a JSON list.  A loaded JSON list
\* is a cache object that has neither get nor keys.
NoCacheFile == [p \in IngestPaths |-> -2]
NotJsonFile == [p \in IngestPaths |-> -3]
JsonList == [p \in IngestPaths |-> -4]

IsDict(cache) == cache # JsonList

\* _load_hash_cache(), on a cache that __init__ has set to {}
load_hash_cache(file) ==
    IF file = NoCacheFile THEN EmptyCache
    ELSE IF file = NotJsonFile THEN EmptyCache
    ELSE file

\* SKIP_DIRS, as far as the model names directories
SKIP_DIRS == {<<"e", "n", "v">>, <<"b", "u", "i", "l", "d">>, <<".", "g", "i", "t">>}

\* path.parts of the absolute path: the parts of repo_path, then those of
\* the relative path
RepoParts == {<<"r", "e", "p", "o">>}

RECURSIVE PartsFrom(_, _)
PartsFrom(path, cur) ==
    IF path = <<>> THEN {cur}
    ELSE IF Head(path) = "/" THEN {cur} \cup PartsFrom(Tail(path), <<>>)
    ELSE PartsFrom(Tail(path), Append(cur, Head(path)))

Parts(path) == RepoParts \cup PartsFrom(path, <<>>)

hash_file(fsys, path) == Sha256(fsys[path].content)

\* path.stat(): an OSError, or the size in bytes
StatError == [ok |-> FALSE, st_size |-> 0]
Stat(size) == [ok |-> TRUE, st_size |-> size]

\* _should_index(path), given what path.stat() gives
should_index_stat(path, st) ==
    IF Language(Suffix(path)) = "unknown" THEN FALSE
    ELSE IF ~st.ok THEN FALSE
    ELSE IF st.st_size > MAX_FILE_SIZE THEN FALSE
    ELSE TRUE

should_index(fsys, path) == should_index_stat(path, Stat(TextLen(fsys[path].content)))

\* One round of the loop of scan_files, for the path root/rel that rglob
\* has met: is the path yielded?
ScanYields(root, rel, is_file, st) ==
    IF (root \cup PartsFrom(rel, <<>>)) \cap SKIP_DIRS # {} THEN FALSE
    ELSE is_file /\ should_index_stat(rel, st)

scan_files(fsys) ==
    SelectSeq(ScanOrder, LAMBDA p : ScanYields(RepoParts, p, fsys[p].exists,
                                               Stat(TextLen(fsys[p].content))))

\* metadata={"language": language, **chunk["metadata"]}
ChunkMeta(language, m) ==
    [language |-> language, type |-> m.type, name |-> m.name, num |-> m.num,
     from |-> m.from, to |-> m.to]

\* The add_chunk loop of index_file from chunk k on; acc is the set of
\* [store, embedder, embedded] reached so far, embedded the number of
\* chunks that were embedded
RECURSIVE AddChunks(_, _, _, _, _)
AddChunks(acc, rel_path, language, chunks, k) ==
    IF k > Len(chunks) THEN acc
    ELSE AddChunks(
           UNION {{[store |-> o.store, embedder |-> o.embedder,
                    embedded |-> a.embedded + (IF o.embedded THEN 1 ELSE 0)]
                   : o \in AddChunkOutcomes(a.store, a.embedder, rel_path,
                                            chunks[k].id, chunks[k].content,
                                            ChunkMeta(language, chunks[k].metadata))}
                  : a \in acc},
           rel_path, language, chunks, k + 1)

\* An index_file that leaves the hash cache as it is
CacheKeep(cache, rel_path, current_hash) == cache

\* self._hash_cache[rel_path] = current_hash
CacheRecord(cache, rel_path, current_hash) ==
    [cache EXCEPT ![rel_path] = current_hash]

\* index_file(path, force): [raised, ret, cache, store, embedder, embedded,
\* read]; read tells whether the content of the file was read
IndexFileOutcomes(fsys, cache, st, e, path, force) ==
    LET nothing(c) == [raised |-> FALSE, ret |-> 0, cache |-> c, store |-> st,
                       embedder |-> e, embedded |-> 0, read |-> FALSE]
    IN  IF ~force /\ ~fsys[path].exists
        THEN {[nothing(cache) EXCEPT !.raised = TRUE]}
        ELSE IF ~force /\ ~IsDict(cache)
        THEN {[nothing(cache) EXCEPT !.raised = TRUE]}
        ELSE IF ~force /\ cache[path] = hash_file(fsys, path)
        THEN {nothing(cache)}
        ELSE LET c1 == IF force THEN cache
                       ELSE CacheRecord(cache, path, hash_file(fsys, path))
             IN  IF ~fsys[path].exists THEN {nothing(c1)}
                 ELSE LET chunks == chunk_file(path, fsys[path].content)
                      IN  {[raised |-> FALSE, ret |-> Len(chunks), cache |-> c1,
                            store |-> o.store, embedder |-> o.embedder,
                            embedded |-> o.embedded, read |-> TRUE]
                           : o \in AddChunks({[store |-> st, embedder |-> e,
                                               embedded |-> 0]},
                                             path, Language(Suffix(path)),
                                             chunks, 1)}

\* remove_deleted_files(): [raised, ret, cache, store, saved]
RemoveDeletedOutcome(fsys, cache, st) ==
    LET files_to_remove == {p \in IngestPaths : cache[p] # NoHash /\ ~fsys[p].exists}
        gone == {FileDocId(p) : p \in files_to_remove}
    IN  IF ~IsDict(cache)
        THEN [raised |-> TRUE, ret |-> 0, cache |-> cache, store |-> st,
              saved |-> FALSE]
        ELSE [raised |-> FALSE, ret |-> Cardinality(files_to_remove),
              cache |-> [p \in IngestPaths |->
                           IF p \in files_to_remove THEN NoHash ELSE cache[p]],
              store |-> [d \in DOMAIN st \ gone |-> st[d]],
              saved |-> files_to_remove # {}]

NoStats == [files_scanned |-> 0, files_indexed |-> 0, chunks_total |-> 0]

NoBrief == [op |-> "none", path |-> <<>>]

\* A call and what it returned; after is the call before it, in brief
NoGCall == [op |-> "none", path |-> <<>>, force |-> FALSE, raised |-> FALSE,
            ret |-> 0, stats |-> NoStats, dirty |-> FALSE, after |-> NoBrief,
            read |-> FALSE, embedded |-> 0, redo |-> FALSE, lost |-> {}]

\* What is kept of the call before: of an unforced index_file its path, of
\* an index_all that it was one, provided the call returned and no edit of
\* the repository fell into it
Brief(c) ==
    IF c.raised \/ c.dirty THEN NoBrief
    ELSE IF c.op = "index_file" /\ ~c.force THEN [op |-> c.op, path |-> c.path]
    ELSE IF c.op = "index_all" THEN [op |-> c.op, path |-> <<>>]
    ELSE NoBrief

\* rets are the values index_file has returned in the pass so far
NoPass == [active |-> FALSE, force |-> FALSE, todo |-> <<>>, i |-> 0,
           files_indexed |-> 0, chunks_total |-> 0, dirty |-> FALSE,
           after |-> NoBrief, done |-> {}, lost |-> {}, rets |-> <<>>]

\* Counters that take every file as indexed
CountEveryFile(p, chunks) ==
    [p EXCEPT !.files_indexed = @ + 1, !.chunks_total = @ + chunks]

\* if chunks > 0: files_indexed += 1; chunks_total += chunks
CountChunks(p, chunks) ==
    IF chunks > 0
    THEN [p EXCEPT !.files_indexed = @ + 1, !.chunks_total = @ + chunks]
    ELSE p

\* FileIngestor(repo_path, index): the hash cache is loaded from its file
NewIngestor ==
    /\ ~pass.active
    /\ hash_cache' = load_hash_cache(cache_file)
    /\ gcall' = [NoGCall EXCEPT !.op = "init"]
    /\ UNCHANGED <<files, cache_file, pass, indexVars, embedVars, pureVars>>

\* index_file(path, force) called on its own
IndexFile ==
    \E path \in IngestPaths, force \in BOOLEAN :
      \E o \in IndexFileOutcomes(files, hash_cache, store, embedder, path, force) :
        /\ ~pass.active
        /\ hash_cache' = o.cache
        /\ store' = o.store
        /\ embedder' = o.embedder
        /\ gcall' = [NoGCall EXCEPT !.op = "index_file", !.path = path,
                        !.force = force, !.raised = o.raised, !.ret = o.ret,
                        !.read = o.read, !.after = Brief(gcall)]
        /\ UNCHANGED <<files, cache_file, pass, icall, embedVars, pureVars>>

\* index_all(force): files = list(self.scan_files()).  lost are the files
\* whose chunks a pass wrote that was interrupted just before this one.
IndexAllBegin ==
    \E force \in BOOLEAN :
        /\ ~pass.active
        /\ pass' = [NoPass EXCEPT !.active = TRUE, !.force = force,
                       !.todo = scan_files(files), !.after = Brief(gcall),
                       !.lost = IF gcall.op = "interrupt" THEN gcall.lost ELSE {}]
        /\ gcall' = [NoGCall EXCEPT !.op = "index_all_begin"]
        /\ UNCHANGED <<files, hash_cache, cache_file, indexVars, embedVars, pureVars>>

\* index_all: one turn of the loop over files; an exception of index_file
\* ends the pass before the cache is saved
IndexAllStep ==
    /\ pass.active
    /\ pass.i < Len(pass.todo)
    /\ LET path == pass.todo[pass.i + 1]
       IN  \E o \in IndexFileOutcomes(files, hash_cache, store, embedder,
                                      path, pass.force) :
             /\ hash_cache' = o.cache
             /\ store' = o.store
             /\ embedder' = o.embedder
             /\ pass' = IF o.raised THEN NoPass
                        ELSE CountChunks(
                               [pass EXCEPT
                                  !.i = @ + 1,
                                  !.done = IF o.embedded > 0 THEN @ \cup {path} ELSE @,
                                  !.rets = Append(@, [path |-> path, ret |-> o.ret])],
                               o.ret)
             /\ gcall' = IF o.raised
                         THEN [NoGCall EXCEPT !.op = "index_all", !.raised = TRUE,
                                  !.force = pass.force, !.dirty = pass.dirty,
                                  !.after = pass.after]
                         ELSE [NoGCall EXCEPT !.op = "index_all_step", !.path = path,
                                  !.ret = o.ret, !.embedded = o.embedded,
                                  !.redo = /\ path \in pass.lost
                                           /\ ~pass.force /\ ~pass.dirty]
             /\ UNCHANGED <<files, cache_file, icall, embedVars, pureVars>>

\* index_all: after the loop the cache is saved and the stats are returned
IndexAllEnd ==
    /\ pass.active
    /\ pass.i = Len(pass.todo)
    /\ cache_file' = hash_cache
    /\ pass' = NoPass
    /\ gcall' = [NoGCall EXCEPT !.op = "index_all", !.force = pass.force,
                    !.dirty = pass.dirty, !.after = pass.after,
                    !.stats = [files_scanned |-> Len(pass.todo),
                               files_indexed |-> pass.files_indexed,
                               chunks_total |-> pass.chunks_total]]
    /\ UNCHANGED <<files, hash_cache, indexVars, embedVars, pureVars>>

RemoveDeletedFiles ==
    LET o == RemoveDeletedOutcome(files, hash_cache, store)
    IN  /\ ~pass.active
        /\ hash_cache' = o.cache
        /\ store' = o.store
        /\ cache_file' = IF o.saved THEN o.cache ELSE cache_file
        /\ gcall' = [NoGCall EXCEPT !.op = "remove_deleted_files", !.ret = o.ret,
                        !.raised = o.raised]
        /\ UNCHANGED <<files, pass, embedder, icall, embedVars, pureVars>>

\* The process is stopped in the middle of index_all, and a new process
\* makes its CodeIndex and FileIngestor on what is on disk
Interrupt ==
    /\ pass.active
    /\ pass' = NoPass
    /\ hash_cache' = load_hash_cache(cache_file)
    /\ embedder' = NoInst
    /\ gcall' = [NoGCall EXCEPT !.op = "interrupt", !.lost = pass.done]
    /\ UNCHANGED <<files, cache_file, store, icall, embedVars, pureVars>>

\* The hash-cache file is deleted or overwritten from outside
DamageCacheFile ==
    \E file \in {NoCacheFile, NotJsonFile, JsonList} :
        /\ ~pass.active
        /\ cache_file # file
        /\ cache_file' = file
        /\ gcall' = [NoGCall EXCEPT !.op = "edit"]
        /\ UNCHANGED <<files, hash_cache, pass, indexVars, embedVars, pureVars>>

\* CodeIndex.clear() on the index of the repository, between the calls of
\* the FileIngestor: the hash cache and its file are not touched
ClearIndex ==
    /\ ~pass.active
    /\ store' = <<>>
    /\ gcall' = [NoGCall EXCEPT !.op = "clear"]
    /\ UNCHANGED <<files, hash_cache, cache_file, pass, embedder, icall,
                   embedVars, pureVars>>

\* The file system under the repository: a file is written or deleted
WriteFile ==
    \E path \in IngestPaths : \E content \in Versions(path) :
        /\ files[path] # File(content)
        /\ files' = [files EXCEPT ![path] = File(content)]
        /\ pass' = IF pass.active THEN [pass EXCEPT !.dirty = TRUE] ELSE pass
        /\ gcall' = [NoGCall EXCEPT !.op = "edit"]
        /\ UNCHANGED <<hash_cache, cache_file, indexVars, embedVars, pureVars>>

DeleteFile ==
    \E path \in IngestPaths :
        /\ files[path].exists
        /\ files' = [files EXCEPT ![path] = Missing]
        /\ pass' = IF pass.active THEN [pass EXCEPT !.dirty = TRUE] ELSE pass
        /\ gcall' = [NoGCall EXCEPT !.op = "edit"]
        /\ UNCHANGED <<hash_cache, cache_file, indexVars, embedVars, pureVars>>

\* An empty repository with no cache file, and a FileIngestor made on it
IngestInit ==
    /\ files = [p \in IngestPaths |-> Missing]
    /\ hash_cache = EmptyCache
    /\ cache_file = NoCacheFile
    /\ pass = NoPass
    /\ gcall = NoGCall

IngestNext ==
    \/ NewIngestor
    \/ IndexFile
    \/ IndexAllBegin
    \/ IndexAllStep
    \/ IndexAllEnd
    \/ RemoveDeletedFiles
    \/ Interrupt
    \/ DamageCacheFile
    \/ ClearIndex
    \/ WriteFile
    \/ DeleteFile

-----------------------------------------------------------------------------
(* commands/review.py on a store that the FileIngestor has built: files are
   written, index_file indexes them, and the review asks the CodeIndex for
   the files related to the changed ones. *)

\* The contents a file is given before a review
Sources(path) ==
    IF path = PathAB THEN {PyOneDef, PyTwoDefs, PySameNames, PyNoDefs} ELSE {JsLarge}

WriteSource ==
    \E path \in IngestPaths : \E content \in Sources(path) :
        /\ files[path] # File(content)
        /\ files' = [files EXCEPT ![path] = File(content)]
        /\ gcall' = [NoGCall EXCEPT !.op = "edit"]
        /\ UNCHANGED <<hash_cache, cache_file, pass, indexVars, embedVars, pureVars>>

\* The paths git reports as changed: two indexed files and a file whose
\* name holds "::"
PathColon == <<"c", "_", "j", "s", ":", ":", "c", "h", "u", "n", "k", "_", "0">>
ReviewPaths == {PathAB, PathC, PathColon}

ReviewLists ==
    {cl \in UNION {[1..k -> ReviewPaths] : k \in 0..MaxChanged} :
        \A x, y \in 1..Len(cl) : x # y => cl[x] # cl[y]}

\* review: index.get_related_files(changed_paths, n_results=show_related),
\* called when index.count is not 0
ReviewRelated ==
    \E changed_paths \in ReviewLists, show_related \in 0..MaxK :
    \E r \in GetRelatedOutcomes(store, embedder, changed_paths, show_related) :
        /\ store # <<>>
        /\ icall' = [NoICall EXCEPT !.op = "get_related_files",
                        !.changed = changed_paths, !.n = show_related,
                        !.ret = r.ret, !.matches = r.matches]
        /\ embedder' = IF \A k \in 1..Len(changed_paths) :
                              \/ FileDocId(changed_paths[k]) \notin DOMAIN store
                              \/ store[FileDocId(changed_paths[k])].content = EmptyText
                       THEN embedder ELSE EmbedderOf(embedder)
        /\ UNCHANGED <<store, embedVars, ingestVars, pureVars>>

\* One review is looked at, made on the store as it then is
BuiltNext ==
    \/ icall.op = "none" /\ WriteSource
    \/ icall.op = "none" /\ IndexFile
    \/ icall.op = "none" /\ ReviewRelated

-----------------------------------------------------------------------------
(* commands/review.py: _calculate_risk_level, and the chunker of
   brain/ingestor.py called on its own. *)

MaxFiles == 12          \* most changed files of a review
MaxRelated == 4         \* most related files of a review
MaxLenSteps == 60       \* content lengths go up to 100 * MaxLenSteps + 99

\* One entry of changed_files: a numstat line carries additions and
\* deletions, a name-status line carries neither
Numstat(additions, deletions) ==
    [numstat |-> TRUE, additions |-> additions, deletions |-> deletions]
NameStatus == [numstat |-> FALSE, additions |-> 0, deletions |-> 0]

\* f.get("additions", 0) + f.get("deletions", 0)
Changes(f) == IF f.numstat THEN f.additions + f.deletions ELSE 0

RECURSIVE SumChanges(_)
SumChanges(changed_files) ==
    IF changed_files = <<>> THEN 0
    ELSE Changes(Head(changed_files)) + SumChanges(Tail(changed_files))

\* A level that needs more than 4 for High
RiskLevelStrict(risk_score) ==
    IF risk_score > 4 THEN "High"
    ELSE IF risk_score >= 2 THEN "Medium"
    ELSE "Low"

RiskLevel(risk_score) ==
    IF risk_score >= 4 THEN "High"
    ELSE IF risk_score >= 2 THEN "Medium"
    ELSE "Low"

\* _calculate_risk_level(changed_files, related_files): [level, reasons,
\* score]; a reason is kept as its kind and the number it prints
calculate_risk_level(changed_files, related_files) ==
    LET total_changes == SumChanges(changed_files)
        s1 == IF total_changes > 500 THEN 2 ELSE IF total_changes > 100 THEN 1 ELSE 0
        r1 == IF total_changes > 500
              THEN <<[kind |-> "Large changeset", n |-> total_changes]>> ELSE <<>>
        s2 == IF Len(changed_files) > 10 THEN 2
              ELSE IF Len(changed_files) > 5 THEN 1 ELSE 0
        r2 == IF Len(changed_files) > 10
              THEN <<[kind |-> "Many files changed", n |-> Len(changed_files)]>>
              ELSE <<>>
        s3 == IF Len(related_files) > 3 THEN 2
              ELSE IF Len(related_files) > 0 THEN 1 ELSE 0
        r3 == IF Len(related_files) > 3
              THEN <<[kind |-> "impacted files not in diff", n |-> Len(related_files)]>>
              ELSE IF Len(related_files) > 0
              THEN <<[kind |-> "related file(s)", n |-> Len(related_files)]>>
              ELSE <<>>
    IN  [level |-> RiskLevel(s1 + s2 + s3), reasons |-> r1 \o r2 \o r3,
         score |-> s1 + s2 + s3]

\* The diffs of the model: the first entry is a numstat line, the others
\* are name-status lines
Additions == {0, 100, 101, 500, 501}
Deletions == {0, 1, 100}

ChangedFiles(count, additions, deletions) ==
    [k \in 1..count |-> IF k = 1 THEN Numstat(additions, deletions) ELSE NameStatus]

RelatedFiles(count) == [k \in 1..count |-> [distance |-> k]]

NoRCall == [op |-> "none", changed_files |-> <<>>, related_files |-> <<>>,
            level |-> "", reasons |-> <<>>]

\* The function keeps no state: one call is made on each input
CalculateRiskLevel ==
    \E count \in 0..MaxFiles, additions \in Additions, deletions \in Deletions,
       related \in 0..MaxRelated :
        LET changed_files == ChangedFiles(count, additions, deletions)
            related_files == RelatedFiles(related)
            o == calculate_risk_level(changed_files, related_files)
        IN  /\ rcall.op = "none"
            /\ rcall' = [op |-> "risk", changed_files |-> changed_files,
                         related_files |-> related_files,
                         level |-> o.level, reasons |-> o.reasons]
            /\ UNCHANGED <<ccall, scall, stackVars, embedVars, indexVars, ingestVars>>

\* The contents given to the chunker: one character repeated
ChunkLengths == {100 * k + j : k \in 0..MaxLenSteps, j \in {0, 1, 99}}
ChunkContents == {IF n = 0 THEN EmptyText ELSE <<Run("d", n)>> : n \in ChunkLengths}

NoCCall == [op |-> "none", path |-> <<>>, content |-> EmptyText, chunks |-> <<>>]

\* _chunk_file(path, content) for a file that is not Python; it keeps no
\* state, and one call is made on each content
ChunkFile ==
    \E content \in ChunkContents :
        /\ ccall.op = "none"
        /\ ccall' = [op |-> "chunk_file", path |-> PathC, content |-> content,
                     chunks |-> chunk_file(PathC, content)]
        /\ UNCHANGED <<rcall, scall, stackVars, embedVars, indexVars, ingestVars>>

\* The repository roots and the paths below them that scan_files is run on
BuildRepoParts == {<<"b", "u", "i", "l", "d">>, <<"r", "e", "p", "o">>}
ScanRoots == {RepoParts, BuildRepoParts}

PathEnvX == <<"e", "n", "v", "/", "x", ".", "p", "y">>
PathSrcGit == <<"s", "/", ".", "g", "i", "t", "/", "h", ".", "g", "o">>
PathDoc == <<"n", ".", "m", "d">>
ScanRels == {PathAB, PathA_B, PathC, PathEnvX, PathSrcGit, PathDoc}

ScanStats == {StatError} \cup {Stat(size) : size \in {0, MAX_FILE_SIZE - 1,
                                                      MAX_FILE_SIZE, MAX_FILE_SIZE + 1}}

NoSCall == [op |-> "none", root |-> {}, path |-> <<>>, is_file |-> FALSE,
            st |-> StatError, yielded |-> FALSE, raised |-> FALSE]

\* scan_files() meeting one path of the repository: a regular file or a
\* directory, of some size, or one whose stat() fails
ScanFiles ==
    \E root \in ScanRoots, rel \in ScanRels, is_file \in BOOLEAN, st \in ScanStats :
        /\ scall.op = "none"
        /\ scall' = [op |-> "scan_files", root |-> root, path |-> rel,
                     is_file |-> is_file, st |-> st,
                     yielded |-> ScanYields(root, rel, is_file, st),
                     raised |-> FALSE]
        /\ UNCHANGED <<rcall, ccall, stackVars, embedVars, indexVars, ingestVars>>

\* The Python sources given to the chunker
PythonContents == {PyOneDef, PyTwoDefs, PyNoDefs, PyBroken, PyLongNoDefs, PyLongBroken}

\* _chunk_file(path, content) for a Python file, which goes to
\* _chunk_python(content, rel_path)
ChunkPythonFile ==
    \E path \in {PathAB, PathA_B}, content \in PythonContents :
        /\ ccall.op = "none"
        /\ ccall' = [op |-> "chunk_python", path |-> path, content |-> content,
                     chunks |-> chunk_file(path, content)]
        /\ UNCHANGED <<rcall, scall, stackVars, embedVars, indexVars, ingestVars>>

PureInit ==
    /\ rcall = NoRCall
    /\ ccall = NoCCall
    /\ scall = NoSCall

ReviewNext == CalculateRiskLevel

ChunkNext == ChunkFile \/ ChunkPythonFile

ScanNext == ScanFiles

-----------------------------------------------------------------------------
(* commands/stack.py and core/config.py: the stack commands add and remove
   over the saved StackState and the branches of the Git repository.  Each
   command loads the stack from its file and saves it when it changes it. *)

BaseBranch == "main"
BranchNames == {"x", "y", "z"}      \* the names given to the commands
NoParent == "none"                  \* no --parent option

StackItem(name, parent) == [name |-> name, parent |-> parent]

\* StackState.get_item(name): the items of that name; None when there is none
get_item(items, name) == SelectSeq(items, LAMBDA item : item.name = name)

\* StackState.get_children(name)
get_children(items, name) == SelectSeq(items, LAMBDA item : item.parent = name)

\* StackState.remove_item(name): the first item of that name is taken out
RECURSIVE remove_item(_, _)
remove_item(items, name) ==
    IF items = <<>> THEN <<>>
    ELSE IF Head(items).name = name THEN Tail(items)
    ELSE <<Head(items)>> \o remove_item(Tail(items), name)

NoKCall == [op |-> "none", name |-> "", delete |-> FALSE, exit |-> 0,
            message |-> ""]

\* gs stack add NAME [--parent PARENT]
AddBranch ==
    \E name \in BranchNames, parent \in BranchNames \cup {BaseBranch, NoParent} :
        LET parent_branch == IF parent = NoParent THEN current ELSE parent
        IN  IF name \in branches
            THEN /\ kcall' = [NoKCall EXCEPT !.op = "add", !.name = name, !.exit = 1,
                                 !.message = "already exists"]
                 /\ UNCHANGED <<stack, branches, current>>
                 /\ UNCHANGED <<rcall, ccall, scall, embedVars, indexVars, ingestVars>>
            ELSE /\ branches' = branches \cup {name}
                 /\ current' = name
                 /\ stack' = Append(stack, StackItem(name, parent_branch))
                 /\ kcall' = [NoKCall EXCEPT !.op = "add", !.name = name,
                                 !.message = "created"]
                 /\ UNCHANGED <<rcall, ccall, scall, embedVars, indexVars, ingestVars>>

\* git checkout REF, made outside the stack commands
Checkout ==
    \E ref \in branches :
        /\ ref # current
        /\ current' = ref
        /\ kcall' = [NoKCall EXCEPT !.op = "checkout", !.name = ref]
        /\ UNCHANGED <<stack, branches>>
        /\ UNCHANGED <<rcall, ccall, scall, embedVars, indexVars, ingestVars>>

\* gs stack remove NAME [--delete]: [stack, branches, exit, message]
RemoveOutcome(items, heads, head, name, delete_branch) ==
    LET end(st, hs, code, msg) ==
            [stack |-> st, branches |-> hs, exit |-> code, message |-> msg]
        removed == remove_item(items, name)
    IN  IF get_item(items, name) = <<>>
        THEN end(items, heads, 1, "not in the stack")
        ELSE IF get_children(items, name) # <<>>
        THEN end(items, heads, 1, "other branches depend on it")
        ELSE IF ~delete_branch
        THEN end(removed, heads, 0, "removed")
        ELSE IF head = name
        THEN end(removed, heads, 1, "cannot delete the checked out branch")
        ELSE IF name \in heads
        THEN end(removed, heads \ {name}, 0, "removed and deleted")
        ELSE end(removed, heads, 0, "removed, branch not deleted")

RemoveBranch ==
    \E name \in BranchNames, delete_branch \in BOOLEAN :
        LET o == RemoveOutcome(stack, branches, current, name, delete_branch)
        IN  /\ stack' = o.stack
            /\ branches' = o.branches
            /\ kcall' = [NoKCall EXCEPT !.op = "remove", !.name = name,
                            !.delete = delete_branch, !.exit = o.exit,
                            !.message = o.message]
            /\ UNCHANGED current
            /\ UNCHANGED <<rcall, ccall, scall, embedVars, indexVars, ingestVars>>

\* gs init on a repository that is on its base branch
StackInit ==
    /\ stack = <<>>
    /\ branches = {BaseBranch}
    /\ current = BaseBranch
    /\ kcall = NoKCall

StackNext == AddBranch \/ Checkout \/ RemoveBranch

-----------------------------------------------------------------------------
(* Specifications: the EmbeddingModel alone, the CodeIndex alone, the
   FileIngestor over its CodeIndex, and the two pure functions. *)

Init == EmbedInit /\ IndexInit /\ IngestInit /\ PureInit /\ StackInit

SpecEmbed == Init /\ [][EmbedNext]_vars

SpecIndex == Init /\ [][IndexNext]_vars

SpecIngest == Init /\ [][IngestNext]_vars

SpecReview == Init /\ [][ReviewNext]_vars

SpecChunk == Init /\ [][ChunkNext]_vars

SpecScan == Init /\ [][ScanNext]_vars

SpecBuilt == Init /\ [][BuiltNext]_vars

SpecStack == Init /\ [][StackNext]_vars

Min(x, y) == IF x <= y THEN x ELSE y

-----------------------------------------------------------------------------
(* Claims about _calculate_risk_level and the windowed chunker. *)

\* The amount a count adds to the risk score: 2 above hi, 1 above lo
Points(count, lo, hi) == IF count > hi THEN 2 ELSE IF count > lo THEN 1 ELSE 0

\* C11: for changed lines L, changed files F and related files R the level
\* returned is High when Points(L,100,500) + Points(F,5,10) + Points(R,0,3)
\* is at least 4, Medium when it is at least 2, and Low otherwise.
C11_RiskScoring ==
    rcall.op = "risk" =>
        LET score == Points(SumChanges(rcall.changed_files), 100, 500)
                     + Points(Len(rcall.changed_files), 5, 10)
                     + Points(Len(rcall.related_files), 0, 3)
        IN  rcall.level = IF score >= 4 THEN "High"
                          ELSE IF score >= 2 THEN "Medium" ELSE "Low"

\* Scenario D: 600 lines in 12 files with 4 related files is High
C11_Witness ==
    /\ rcall.op = "risk"
    /\ SumChanges(rcall.changed_files) = 600
    /\ Len(rcall.changed_files) = 12
    /\ Len(rcall.related_files) = 4
    /\ rcall.level = "High"

\* C12: the number of reasons returned equals the number of the three
\* conditions (lines, files, related files) that added 1 or 2 to the score.
C12_ReasonPerCondition ==
    rcall.op = "risk" =>
        Len(rcall.reasons) =
            Cardinality({c \in {"lines", "files", "related"} :
                CASE c = "lines" -> Points(SumChanges(rcall.changed_files), 100, 500) > 0
                  [] c = "files" -> Points(Len(rcall.changed_files), 5, 10) > 0
                  [] c = "related" -> Points(Len(rcall.related_files), 0, 3) > 0})

\* C13: content of at most CHUNK_SIZE characters gives exactly one chunk;
\* longer content gives windows whose starts differ by CHUNK_SIZE -
\* CHUNK_OVERLAP, each ending at min(start + CHUNK_SIZE, n), the last at n.
C13_WindowBounds ==
    ccall.op = "chunk_file" =>
        LET n == TextLen(ccall.content)
            w == ccall.chunks
        IN  IF n <= CHUNK_SIZE THEN Len(w) = 1
            ELSE /\ Len(w) >= 1
                 /\ \A k \in 1..Len(w) :
                      /\ w[k].metadata.type = "chunk"
                      /\ w[k].metadata.to = Min(w[k].metadata.from + CHUNK_SIZE, n)
                 /\ \A k \in 1..(Len(w) - 1) :
                      w[k + 1].metadata.from - w[k].metadata.from
                        = CHUNK_SIZE - CHUNK_OVERLAP
                 /\ w[Len(w)].metadata.to = n

\* Content long enough for three windows, the last one cut at the end
C13_Witness ==
    /\ ccall.op = "chunk_file"
    /\ Len(ccall.chunks) >= 3
    /\ ccall.chunks[Len(ccall.chunks)].metadata.to = TextLen(ccall.content)
    /\ ccall.chunks[Len(ccall.chunks)].metadata.to
         < ccall.chunks[Len(ccall.chunks)].metadata.from + CHUNK_SIZE

\* C14 as stated: a 2100-character file of a language without structural
\* chunking gives 3 chunks, the last one cut at the content length.
C14_ThreeChunks ==
    (ccall.op = "chunk_file" /\ TextLen(ccall.content) = 2100) =>
        /\ Len(ccall.chunks) = 3
        /\ ccall.chunks[Len(ccall.chunks)].metadata.to = 2100

\* C14 amended: a 2100-character file of a language without structural
\* chunking gives 2 chunks, [0, 2000) and [1800, 2100): the third start,
\* 3600, is not below the content length.
C14_TwoChunks ==
    (ccall.op = "chunk_file" /\ TextLen(ccall.content) = 2100) =>
        /\ Len(ccall.chunks) = 2
        /\ ccall.chunks[1].metadata.from = 0
        /\ ccall.chunks[1].metadata.to = 2000
        /\ TextLen(ccall.chunks[1].content) = 2000
        /\ ccall.chunks[2].metadata.from = 1800
        /\ ccall.chunks[2].metadata.to = 2100
        /\ TextLen(ccall.chunks[2].content) = 300

C14_Witness ==
    /\ ccall.op = "chunk_file"
    /\ TextLen(ccall.content) = 2100
    /\ ccall.chunks[1].id = IdChunk(0)

\* C23: for a Python file that does not parse, or that parses to no function
\* or class definition, the chunks are exactly those of windowed chunking of
\* the same content.
C23_StructuralFallback ==
    (/\ ccall.op = "chunk_python"
     /\ \/ ~AstParse(ccall.content).ok
        \/ AstParse(ccall.content).defs = <<>>)
    => ccall.chunks = chunk_by_lines(ccall.content)

-----------------------------------------------------------------------------
(* Claims about FileIngestor. *)

\* C22: scan_files yields a path under the repository root if and only if it
\* is a regular file with an extension of the allow-list, a size below
\* MAX_FILE_SIZE and no component inside the repository that is in the
\* skip-set; a path that fails one of these, or whose size cannot be read,
\* is left out without an error.
C22_ScanFilter ==
    scall.op = "scan_files"
    => /\ ~scall.raised
       /\ scall.yielded
          <=> /\ scall.is_file
              /\ Language(Suffix(scall.path)) # "unknown"
              /\ scall.st.ok
              /\ scall.st.st_size < MAX_FILE_SIZE
              /\ PartsFrom(scall.path, <<>>) \cap SKIP_DIRS = {}

\* C1: when index_file(path, force=false) is called twice in a row, with no
\* edit of the repository and no other call between the two, the second
\* call returns 0, reads no file content and leaves the vector store and
\* the hash cache exactly as the first call left them.
C1_IndexFileIdempotent ==
    [][(/\ gcall.op = "index_file" /\ ~gcall.force /\ ~gcall.raised
        /\ gcall'.op = "index_file" /\ ~gcall'.force
        /\ gcall'.path = gcall.path
        /\ gcall'.after = Brief(gcall))
       => (/\ gcall'.ret = 0
           /\ ~gcall'.raised
           /\ ~gcall'.read
           /\ store' = store
           /\ hash_cache' = hash_cache)]_vars

\* A second unforced index_file of a file whose chunks the first one stored
C1_Witness ==
    /\ gcall.op = "index_file" /\ ~gcall.force /\ ~gcall.raised
    /\ gcall.after = [op |-> "index_file", path |-> gcall.path]
    /\ gcall.ret = 0
    /\ hash_cache[gcall.path] = hash_file(files, gcall.path)
    /\ \E d \in DOMAIN store : store[d].meta.file_path = gcall.path

\* C2: an index_all(force=false) that directly follows a completed index_all
\* pass, of either force setting, with no edit of the repository during or
\* between the two, reports files_indexed = 0 and chunks_total = 0.
C2_RepeatPassIndexesNothing ==
    (/\ gcall.op = "index_all" /\ ~gcall.force /\ ~gcall.raised /\ ~gcall.dirty
     /\ gcall.after.op = "index_all")
    => (gcall.stats.files_indexed = 0 /\ gcall.stats.chunks_total = 0)

\* C3: remove_deleted_files() leaves no document in the store and no entry in
\* the hash cache for any path that the cache recorded and that is no longer
\* on disk.
C3_DeletedFilesRemoved ==
    [][gcall'.op = "remove_deleted_files"
       => \A p \in IngestPaths :
            (hash_cache[p] # NoHash /\ ~files[p].exists)
            => (/\ hash_cache'[p] = NoHash
                /\ \A d \in DOMAIN store' : store'[d].meta.file_path # p)]_vars

\* C15: when index_file(path, force) returns without having taken the
\* hash-match skip (force is true, or the cached hash was absent or
\* different), the hash-cache entry of path is the file's current hash.
C15_CacheUpdatedOnIndex ==
    (/\ gcall.op = "index_file" /\ ~gcall.raised
     /\ files[gcall.path].exists
     /\ (gcall.force \/ gcall.read))
    => hash_cache[gcall.path] = hash_file(files, gcall.path)

\* C16: while an index_all call is under way the saved hash cache keeps its
\* content; the call ends by writing it, once, after index_file has returned
\* for every scanned file.
C16_CacheSavedOnceAtEnd ==
    [][(pass.active /\ gcall'.op \in {"index_all_step", "index_all"})
       => IF pass'.active THEN cache_file' = cache_file
          ELSE /\ pass.i = Len(pass.todo)
               /\ cache_file' = hash_cache]_vars

\* C17: an interruption of index_all loses no stored document, and the next
\* unforced index_all, run by a new process with no edit in between, treats
\* every file whose chunks the interrupted pass wrote as changed and embeds
\* each of its chunks again.
C17_InterruptedPassRedone ==
    [][/\ gcall'.op = "interrupt" => store' = store
       /\ (gcall'.op = "index_all_step" /\ gcall'.redo)
          => (/\ gcall'.ret > 0
              /\ gcall'.embedded = gcall'.ret
              /\ \A d \in DOMAIN store : d \in DOMAIN store')]_vars

\* C18: when index_all reaches a scanned file that is no longer there, it
\* does not raise: it counts no chunks for the file and goes on to the next.
C18_NoAbortOnOneFile ==
    [][(/\ pass.active /\ pass.i < Len(pass.todo)
        /\ ~files[pass.todo[pass.i + 1]].exists
        /\ gcall'.op \in {"index_all_step", "index_all"})
       => (/\ ~gcall'.raised
           /\ pass'.active
           /\ pass'.i = pass.i + 1
           /\ pass'.files_indexed = pass.files_indexed
           /\ pass'.chunks_total = pass.chunks_total)]_vars

\* C19: a FileIngestor made when the hash-cache file is absent, is not JSON
\* or is JSON that is no object starts with an empty cache, and no later
\* call raises on account of the loaded cache.
C19_CacheLoadTolerant ==
    [][/\ (gcall'.op \in {"init", "interrupt"}
           /\ cache_file \in {NoCacheFile, NotJsonFile, JsonList})
          => hash_cache' = EmptyCache
       /\ (gcall'.raised /\ ~IsDict(hash_cache))
          => \/ gcall'.op = "index_file" /\ ~files[gcall'.path].exists
             \/ /\ gcall'.op = "index_all"
                /\ ~files[pass.todo[pass.i + 1]].exists]_vars

RECURSIVE SumRets(_)
SumRets(rets) == IF rets = <<>> THEN 0 ELSE Head(rets).ret + SumRets(Tail(rets))

\* C24: an index_all call that returns has applied index_file once to every
\* scanned file, in scan order; files_scanned is the number of scanned
\* files, files_indexed the number of files for which index_file returned
\* more than 0, chunks_total the sum of the returned values; so
\* files_indexed <= files_scanned and chunks_total >= files_indexed, and a
\* scan that finds no file gives 0, 0, 0.
C24_IndexAllStats ==
    [][(pass.active /\ gcall'.op = "index_all" /\ ~gcall'.raised)
       => LET stats == gcall'.stats
              rets == pass.rets
          IN  /\ [k \in 1..Len(rets) |-> rets[k].path] = pass.todo
              /\ stats.files_scanned = Len(pass.todo)
              /\ stats.files_indexed
                   = Cardinality({k \in 1..Len(rets) : rets[k].ret > 0})
              /\ stats.chunks_total = SumRets(rets)
              /\ stats.files_indexed <= stats.files_scanned
              /\ stats.chunks_total >= stats.files_indexed
              /\ pass.todo = <<>> => stats = NoStats]_vars

\* A pass over two files has returned: one file was unchanged, the other
\* gave two chunks
C24_Witness ==
    /\ gcall.op = "index_all"
    /\ ~gcall.raised
    /\ gcall.stats = [files_scanned |-> 2, files_indexed |-> 1, chunks_total |-> 2]

\* The documents of the store that belong to a file
DocsOf(st, path) == {d \in DOMAIN st : st[d].meta.file_path = path}

\* The store holds chunk k of the chunks of a file, with its content
Holds(st, path, chunks, k) ==
    /\ ChunkDocId(path, chunks[k].id) \in DOMAIN st
    /\ st[ChunkDocId(path, chunks[k].id)].content = chunks[k].content

\* C25: when an index_all pass has completed, with no edit during the pass,
\* every scanned file has a document in the store for each chunk of its
\* content, whatever index_all, remove_deleted_files, clear calls and file
\* edits came before; so clear() and then index_all(force=false) on an
\* unchanged tree fills the store again.
C25_StoreMatchesTree ==
    (gcall.op = "index_all" /\ ~gcall.raised /\ ~gcall.dirty)
    => \A path \in Range(scan_files(files)) :
         LET chunks == chunk_file(path, files[path].content)
         IN  \A k \in 1..Len(chunks) : Holds(store, path, chunks, k)

\* C26: when index_file has indexed a file again, the documents of the store
\* that belong to the file are exactly the chunks of its current content.
C26_NoStaleChunks ==
    (gcall.op = "index_file" /\ ~gcall.raised /\ gcall.ret > 0)
    => LET chunks == chunk_file(gcall.path, files[gcall.path].content)
       IN  /\ DocsOf(store, gcall.path)
                = {ChunkDocId(gcall.path, chunks[k].id) : k \in 1..Len(chunks)}
           /\ \A k \in 1..Len(chunks) : Holds(store, gcall.path, chunks, k)

\* C27: on a store that only index_file has written, get_related_files
\* finds no changed file under its whole-file id, makes no search and
\* returns the empty list, for every list of changed repository paths and
\* every number of results.
C27_NoRelatedOnBuiltStore ==
    icall.op = "get_related_files"
    => /\ \A k \in 1..Len(icall.changed) :
            FileDocId(icall.changed[k]) \notin DOMAIN store
       /\ icall.matches = {}
       /\ icall.ret = <<>>

\* C28: the chunks of one file have pairwise distinct chunk ids, so when
\* index_file returns n for a file that had no document in the store, the
\* store then holds exactly n documents of that file.
C28_ChunkIdsUnique ==
    [][(/\ gcall'.op = "index_file" /\ ~gcall'.raised /\ gcall'.ret > 0
        /\ store' # store
        /\ DocsOf(store, gcall'.path) = {})
       => LET chunks == chunk_file(gcall'.path, files[gcall'.path].content)
          IN  /\ \A j, k \in 1..Len(chunks) : j # k => chunks[j].id # chunks[k].id
              /\ Cardinality(DocsOf(store', gcall'.path)) = gcall'.ret]_vars

-----------------------------------------------------------------------------
(* Claims about CodeIndex. *)


\* C4: an add_chunk whose document id is in the store with a content_hash
\* equal to the hash of the incoming content changes nothing and computes no
\* embedding; any other add_chunk leaves under that id exactly the incoming
\* content, its embedding and its metadata, and touches no other document.
C4_ChunkUpsertDedup ==
    [][icall'.op = "add_chunk" =>
        LET id == ChunkDocId(icall'.file_path, icall'.chunk_id)
            h  == hash_content(icall'.content)
        IN  IF id \in DOMAIN store /\ store[id].meta.content_hash = h
            THEN store' = store /\ ~icall'.embedded
            ELSE /\ icall'.embedded
                 /\ DOMAIN store' = DOMAIN store \cup {id}
                 /\ store'[id].content = icall'.content
                 /\ store'[id].vec \in
                        {o.value : o \in EmbedderOutcomes(embedder, icall'.content)}
                 /\ store'[id].meta =
                        [file_path |-> icall'.file_path, chunk_id |-> icall'.chunk_id,
                         content_hash |-> h, extra |-> icall'.extra]
                 /\ \A d \in DOMAIN store \ {id} : store'[d] = store[d]]_vars

\* An add_chunk has just been skipped as a duplicate.
C4_Witness ==
    /\ icall.op = "add_chunk"
    /\ ~icall.embedded
    /\ ChunkDocId(icall.file_path, icall.chunk_id) \in DOMAIN store

\* C5: document ids are unique per (file_path, chunk_id): an add_chunk never
\* meets, under its derived id, the document of another (file_path, chunk_id).
C5_DocIdsUnique ==
    [][icall'.op = "add_chunk" =>
        LET id == ChunkDocId(icall'.file_path, icall'.chunk_id)
        IN  id \in DOMAIN store =>
                /\ store[id].meta.file_path = icall'.file_path
                /\ store[id].meta.chunk_id = icall'.chunk_id]_vars

\* C6: no entry of the list get_related_files returns has a file_path that
\* is in changed_files.
C6_ImpactExclusion ==
    icall.op = "get_related_files" =>
        \A k \in 1..Len(icall.ret) :
            icall.ret[k].file_path \notin Range(icall.changed)

\* get_related_files has returned something while the store holds documents
\* of the changed files.
C6_Witness ==
    /\ icall.op = "get_related_files"
    /\ icall.ret # <<>>
    /\ Len(icall.changed) = 2
    /\ \E d \in DOMAIN store : store[d].meta.file_path \in Range(icall.changed)

\* C7: search returns no result whose file_path is in file_filter, and the
\* filter is applied before the n nearest are taken: the results are as many
\* as n allows among the documents not excluded.
C7_FilterBeforeRanking ==
    icall.op = "search" =>
        /\ \A k \in 1..Len(icall.ret) :
              icall.ret[k].file_path \notin Range(icall.changed)
        /\ Len(icall.ret) =
              Min(icall.n,
                  Cardinality({d \in DOMAIN store :
                      store[d].meta.file_path \notin Range(icall.changed)}))

\* A search has filled all its n slots although an excluded document is at
\* least as near to the query as every result.
C7_Witness ==
    /\ icall.op = "search"
    /\ icall.changed # <<>>
    /\ Len(icall.ret) = icall.n
    /\ \E d \in DOMAIN store :
          /\ store[d].meta.file_path \in Range(icall.changed)
          /\ \A k \in 1..Len(icall.ret) :
                Distance(simple_hash_embedding(icall.content, DefaultDimension),
                         store[d].vec) < icall.ret[k].distance

\* C8: the list get_related_files returns has at most one entry per path, the
\* entry of a path is a match of lowest distance among all the matches of
\* that path its searches returned, every matched path outside changed_files
\* has an entry, and the list is in non-decreasing order of distance.
C8_ImpactMerge ==
    icall.op = "get_related_files" =>
        /\ \A j, k \in 1..Len(icall.ret) :
              /\ (j # k => icall.ret[j].file_path # icall.ret[k].file_path)
              /\ (j < k => icall.ret[j].distance <= icall.ret[k].distance)
        /\ \A k \in 1..Len(icall.ret) :
              /\ icall.ret[k] \in icall.matches
              /\ \A m \in icall.matches :
                    m.file_path = icall.ret[k].file_path =>
                        icall.ret[k].distance <= m.distance
        /\ \A m \in icall.matches :
              m.file_path \notin Range(icall.changed) =>
                  \E k \in 1..Len(icall.ret) : icall.ret[k].file_path = m.file_path

\* get_related_files has merged two matches of one path at different
\* distances into one entry.
C8_Witness ==
    /\ icall.op = "get_related_files"
    /\ icall.ret # <<>>
    /\ \E m1, m2 \in icall.matches :
          m1.file_path = m2.file_path /\ m1.distance < m2.distance

\* C20: remove_file returns true exactly when a document of the derived id
\* was in the store, and then it is removed; for an id that is not in the
\* store it returns false and leaves the store as it is.
C20_DeleteResult ==
    [][icall'.op = "remove_file"
       => LET doc_id == FileDocId(icall'.file_path)
          IN  /\ icall'.removed <=> doc_id \in DOMAIN store
              /\ doc_id \notin DOMAIN store'
              /\ doc_id \notin DOMAIN store => store' = store]_vars

\* C29: the embedder of a CodeIndex is in fallback mode and holds no
\* backend, whatever add_file, add_chunk, search and get_related_files calls
\* were made; every stored vector is the hash-derived vector of the stored
\* content, and every distance returned by search is measured from the
\* hash-derived vector of the query.
C29_IndexEmbedsInFallback ==
    /\ embedder.live => (embedder.fallback /\ embedder.model = NoBackend)
    /\ built = 0
    /\ \A d \in DOMAIN store :
         store[d].vec = simple_hash_embedding(store[d].content, DefaultDimension)
    /\ icall.op = "search"
       => \A k \in 1..Len(icall.ret) :
            icall.ret[k].distance
              = Distance(simple_hash_embedding(icall.content, DefaultDimension),
                         store[icall.ret[k].id].vec)

\* A search that embedded its query and found a stored document
C29_Witness ==
    /\ icall.op = "search"
    /\ Len(icall.ret) > 0
    /\ embedder.live
    /\ store # <<>>

-----------------------------------------------------------------------------
(* Claims about the stack commands. *)

\* C30: a stack remove that ends with an error exit (the branch is not in
\* the stack, it has tracked children, or --delete was asked for the
\* checked-out branch) leaves the saved stack as it was, and no remove
\* takes a branch with tracked children out of the stack.
C30_RemoveAllOrNothing ==
    [][kcall'.op = "remove"
       => /\ kcall'.exit = 1 => stack' = stack
          /\ get_children(stack, kcall'.name) # <<>> => stack' = stack]_vars

-----------------------------------------------------------------------------
(* Claims about EmbeddingModel. *)

\* C21: whatever embed, embed_batch, dimension and model calls are made on
\* whatever EmbeddingModel objects, of whatever model names, the process
\* constructs the real embedding backend at most once.
C21_BackendBuiltOnce == built <= 1

\* C9: on any one EmbeddingModel object, once is_fallback is true it stays
\* true through every later embed, embed_batch, dimension and model access:
\* no step on a live object takes its fallback flag from true to false.
C9_FallbackOneWay ==
    [][\A i \in InstIds :
          (instances[i].live /\ instances[i].fallback /\ ecall'.op # "init")
              => (instances'[i].live /\ instances'[i].fallback)]_vars

\* A call in which the backend failed has put the object in fallback mode
\* (entered from normal mode), and a later call has run on it.
C9_Witness ==
    /\ eprev.failed
    /\ ecall.op \in {"embed", "embed_batch", "dimension", "model"}
    /\ ecall.inst = eprev.inst
    /\ instances[ecall.inst].fallback

\* C10: embed never raises; the call in which the backend fails returns the
\* hash-derived vector of its text and leaves is_fallback true; and embedding
\* the same text again returns a vector equal to it.
C10_EmbedAvailable ==
    /\ (ecall.op = "embed" => ~ecall.raised)
    /\ (ecall.op = "embed" /\ ecall.failed) =>
          /\ ecall.value[1] = simple_hash_embedding(ecall.args[1], DefaultDimension)
          /\ instances[ecall.inst].fallback
    /\ (eprev.op = "embed" /\ eprev.failed /\ ecall.op = "embed"
         /\ ecall.inst = eprev.inst /\ ecall.args = eprev.args) =>
          PyListEq(eprev.value[1], ecall.value[1])

====
